---- MODULE Spec2Model ----
(***************************************************************************)
(* A model of the insurance commission CRM: the carrier mapping tables     *)
(* (config.py), the file processor (processor.py: validate_file,           *)
(* process_file, _normalize_data, _clean_data, _convert_datatypes,         *)
(* _calculate_stats, detect_carrier, process_and_save) and the commission  *)
(* store (database.py: the inserts, the queries, export_to_excel and       *)
(* delete_all_records).                                                    *)
(*                                                                         *)
(* Four specifications share the variables: Spec (ingestions of every      *)
(* file), SpecStore (the store's operations as the sessions of the         *)
(* application interleave them), SpecNormalize (_normalize_data and        *)
(* _calculate_stats on one table) and SpecDetect (detect_carrier).         *)
(*                                                                         *)
(* Representation.  A spreadsheet header and a canonical field name are    *)
(* strings.  The text of a cell is a sequence of one-character strings, so *)
(* that strip() and letter case are computed and not assumed.  A cell is a *)
(* record [t, s, n]: t is the Python type the spreadsheet reader gives the *)
(* cell ("null" for a blank cell / NaN / None), s its text when t = "str", *)
(* n its number when t is "bool" (1 or 0), "int" or "date" (a day number). *)
(* A table (DataFrame) is [columns, rows]: a set of column names and a     *)
(* sequence of rows, each a function from the columns to cells.            *)
(***************************************************************************)
EXTENDS Integers, Sequences, FiniteSets, TLC

\* ------------------------------------------------------------------ bounds

\* The largest number of data rows of an input spreadsheet.
MaxRows == 2

\* The largest number of rows the commission store holds.
MaxStore == 3

\* The largest id AUTOINCREMENT gives a row.
MaxId == 4

\* ---------------------------------------------------- config.py: mappings

MOLINA_MAPPING ==
    ("Generated From" :> "generated_from") @@
    ("Payment Date" :> "payment_date") @@
    ("PayeeName" :> "payee_name") @@
    ("NPN" :> "payee_npn") @@
    ("Statement Date" :> "statement_date") @@
    ("Product" :> "product") @@
    ("Policy" :> "policy_number") @@
    ("Insured" :> "insured_name") @@
    ("Effective Date" :> "effective_date") @@
    ("WritingAgent" :> "writing_agent") @@
    ("Writing Agent Number" :> "writing_agent_number") @@
    ("Transaction Type" :> "transaction_type") @@
    ("NewToMedicare" :> "new_to_medicare") @@
    ("Carrier Transaction Type" :> "carrier_transaction_type") @@
    ("Member Count" :> "member_count") @@
    ("Amount" :> "amount") @@
    ("Agente" :> "assigned_agent_name") @@
    ("Mes Pagado" :> "commission_month")

AMBETTER_MAPPING ==
    ("Generated From" :> "generated_from") @@
    ("Payment Date" :> "payment_date") @@
    ("PayeeName" :> "payee_name") @@
    ("NPN" :> "payee_npn") @@
    ("Statement Date" :> "statement_date") @@
    ("Product" :> "product") @@
    ("Policy" :> "policy_number") @@
    ("Insured" :> "insured_name") @@
    ("Effective Date" :> "effective_date") @@
    ("PayoutType" :> "payout_type") @@
    ("Writing Agent" :> "writing_agent") @@
    ("Writing Agent Number" :> "writing_agent_number") @@
    ("TransactionType" :> "transaction_type") @@
    ("NewToMedicare" :> "new_to_medicare") @@
    ("Carrier Transaction Type" :> "carrier_transaction_type") @@
    ("Member Count" :> "member_count") @@
    ("Amount" :> "amount") @@
    ("Unnamed: 18" :> "assigned_agent_name")

AETNA_MAPPING ==
    ("Generated From" :> "generated_from") @@
    ("Payment Date" :> "payment_date") @@
    ("PayeeName" :> "payee_name") @@
    ("Statement Date" :> "statement_date") @@
    ("Product" :> "product") @@
    ("Policy" :> "policy_number") @@
    ("Insured" :> "insured_name") @@
    ("Effective Date" :> "effective_date") @@
    ("Payout Type" :> "payout_type") @@
    ("WritingAgent" :> "writing_agent") @@
    ("WritingAgentNumber" :> "writing_agent_number") @@
    ("Transaction Type" :> "transaction_type") @@
    ("NewToMedicare" :> "new_to_medicare") @@
    ("CarrierTransactionType" :> "carrier_transaction_type") @@
    ("Member Count" :> "member_count") @@
    ("Amount" :> "amount")

OSCAR_MAPPING ==
    ("Commission type" :> "commission_type") @@
    ("Payee name" :> "payee_name") @@
    ("Payee type" :> "payee_type") @@
    ("Payee NPN" :> "payee_npn") @@
    ("Member ID" :> "member_id") @@
    ("Subscriber name" :> "insured_name") @@
    ("State" :> "state") @@
    ("Lives" :> "lives") @@
    ("Effective Date" :> "effective_date") @@
    ("Commission" :> "amount") @@
    ("Commission month" :> "commission_month") @@
    ("Block Reason" :> "block_reason") @@
    ("Unnamed: 12" :> "assigned_agent_name")

\* The dictionary of mappings; a Python dict iterates in insertion order,
\* which CarrierOrder records.
CARRIER_MAPPINGS ==
    ("MOLINA" :> MOLINA_MAPPING) @@
    ("AMBETTER" :> AMBETTER_MAPPING) @@
    ("AETNA" :> AETNA_MAPPING) @@
    ("OSCAR" :> OSCAR_MAPPING)

CarrierOrder == <<"MOLINA", "AMBETTER", "AETNA", "OSCAR">>

AVAILABLE_CARRIERS == {CarrierOrder[i] : i \in 1..Len(CarrierOrder)}

\* ------------------------------------------------------------ cell values

NullCell == [t |-> "null", s |-> <<>>, n |-> 0]
StrCell(chars) == [t |-> "str", s |-> chars, n |-> 0]
IntCell(k) == [t |-> "int", s |-> <<>>, n |-> k]
BoolCell(b) == [t |-> "bool", s |-> <<>>, n |-> IF b THEN 1 ELSE 0]
DateCell(d) == [t |-> "date", s |-> <<>>, n |-> d]

IsNull(v) == v.t = "null"

\* Texts the model's cells hold, spelled out character by character.
sYes == <<"Y", "e", "s">>
syes == <<"y", "e", "s">>
sYES == <<"Y", "E", "S">>
sNo == <<"N", "o">>
sno == <<"n", "o">>
sNO == <<"N", "O">>
sTrue == <<"T", "r", "u", "e">>
strue == <<"t", "r", "u", "e">>
sTRUE == <<"T", "R", "U", "E">>
sFalse == <<"F", "a", "l", "s", "e">>
sfalse == <<"f", "a", "l", "s", "e">>
sfAlse == <<"f", "A", "l", "s", "e">>
sOne == <<"1">>
sZero == <<"0">>
sNan == <<"n", "a", "n">>
sEmpty == <<>>
sBlank == <<" ", " ">>
sYesPadded == <<" ", "Y", "e", "s", "\t">>
sMaybe == <<"m", "a", "y", "b", "e">>
sTwelve == <<"1", "2">>

\* str.lower() on the letters the model's texts use; any other character is
\* its own lower case.
LowerChar(c) ==
    CASE c = "Y" -> "y" [] c = "E" -> "e" [] c = "S" -> "s" [] c = "N" -> "n"
      [] c = "O" -> "o" [] c = "T" -> "t" [] c = "R" -> "r" [] c = "U" -> "u"
      [] c = "F" -> "f" [] c = "A" -> "a" [] c = "L" -> "l"
      [] OTHER -> c

RECURSIVE Lower(_)
Lower(chars) ==
    IF chars = <<>> THEN <<>> ELSE <<LowerChar(Head(chars))>> \o Lower(Tail(chars))

IsSpace(c) == c \in {" ", "\t", "\n"}

\* str.strip(): drop the leading and the trailing whitespace.
RECURSIVE LStrip(_)
LStrip(chars) ==
    IF chars # <<>> /\ IsSpace(Head(chars)) THEN LStrip(Tail(chars)) ELSE chars

RECURSIVE RStrip(_)
RStrip(chars) ==
    IF chars # <<>> /\ IsSpace(chars[Len(chars)])
    THEN RStrip(SubSeq(chars, 1, Len(chars) - 1))
    ELSE chars

\* Variant of the strip that drops the leading whitespace only (lstrip).
StripMut(chars) == LStrip(chars)

Strip(chars) == RStrip(LStrip(chars))

Digits == <<"0", "1", "2", "3", "4", "5", "6", "7", "8", "9">>

IsDigit(c) == \E k \in 1..Len(Digits) : Digits[k] = c

DigitValue(c) == (CHOOSE k \in 1..Len(Digits) : Digits[k] = c) - 1

\* The number a text of decimal digits denotes; -1 when the text is not one
\* (float() raises ValueError on it, which errors='coerce' turns into NaN).
RECURSIVE ParseNumber(_)
ParseNumber(chars) ==
    IF chars = <<>> THEN -1
    ELSE IF ~IsDigit(chars[Len(chars)]) THEN -1
    ELSE IF Len(chars) = 1 THEN DigitValue(chars[1])
    ELSE LET hi == ParseNumber(SubSeq(chars, 1, Len(chars) - 1))
         IN  IF hi < 0 THEN -1 ELSE 10 * hi + DigitValue(chars[Len(chars)])

\* Dates are day numbers: 0 is 1970-01-01 (the epoch), d in 1..9 is 2024-01-0d.
EpochDay == 0

Days == 0..9

\* strftime('%Y-%m-%d') of a day.
DateText(d) ==
    IF d = EpochDay
    THEN <<"1", "9", "7", "0", "-", "0", "1", "-", "0", "1">>
    ELSE <<"2", "0", "2", "4", "-", "0", "1", "-", "0", Digits[d + 1]>>

\* The same day as a spreadsheet exported in the US would spell it.
DateTextUS(d) == <<"0", "1", "/", "0", Digits[d + 1], "/", "2", "0", "2", "4">>

\* The UTC offsets a text may end with: +01:00 and -05:00.
Offsets ==
    << <<"+", "0", "1", ":", "0", "0">>, <<"-", "0", "5", ":", "0", "0">> >>

\* Midnight of a day with the o-th offset, as ISO 8601 spells it.
DateTextOffset(d, o) ==
    DateText(d) \o <<"T", "0", "0", ":", "0", "0", ":", "0", "0">> \o Offsets[o]

\* The offset a text of a date and time ends with: its position in Offsets, 0
\* when the text has none.
OffsetOf(chars) ==
    IF \E d \in Days, o \in 1..Len(Offsets) : chars = DateTextOffset(d, o)
    THEN CHOOSE o \in 1..Len(Offsets) : \E d \in Days : chars = DateTextOffset(d, o)
    ELSE 0

\* The date parser on a text: the day it denotes (its local day when it has
\* an offset), -1 when it denotes none.
ParseDate(chars) ==
    IF \E d \in Days : chars = DateText(d)
    THEN CHOOSE d \in Days : chars = DateText(d)
    ELSE IF \E d \in Days \ {EpochDay} : chars = DateTextUS(d)
    THEN CHOOSE d \in Days \ {EpochDay} : chars = DateTextUS(d)
    ELSE IF OffsetOf(chars) # 0
    THEN CHOOSE d \in Days : chars = DateTextOffset(d, OffsetOf(chars))
    ELSE -1

\* ------------------------------------------------ processor.py: _clean_data

\* One cell through _clean_data: a text is stripped, then NaN, '' and 'nan'
\* are replaced by None.
CleanCell(v) ==
    IF v.t = "str"
    THEN LET stripped == Strip(v.s)
         IN  IF stripped = sEmpty \/ stripped = sNan
             THEN NullCell
             ELSE StrCell(stripped)
    ELSE v

\* ------------------------------------------- processor.py: _convert_datatypes

date_columns == {"payment_date", "statement_date", "effective_date"}

numeric_columns == {"amount", "member_count", "lives", "override_percentage"}

boolean_columns == {"new_to_medicare"}

\* Variant of the date conversion with errors='ignore': a text that is no date
\* is left as it is.
ToDateTextMut(v) ==
    CASE v.t = "date" -> StrCell(DateText(v.n))
      [] v.t = "int" -> StrCell(DateText(EpochDay))
      [] v.t = "str" ->
            IF ParseDate(v.s) >= 0 THEN StrCell(DateText(ParseDate(v.s))) ELSE v
      [] OTHER -> NullCell

\* pd.to_datetime(errors='coerce') then .dt.strftime('%Y-%m-%d'): a date cell
\* keeps its day, a text is parsed, an integer counts nanoseconds from the
\* epoch, anything else is NaT, which strftime leaves as a missing value.
ToDateText(v) ==
    CASE v.t = "date" -> StrCell(DateText(v.n))
      [] v.t = "int" -> StrCell(DateText(EpochDay))
      [] v.t = "str" ->
            IF ParseDate(v.s) >= 0 THEN StrCell(DateText(ParseDate(v.s))) ELSE NullCell
      [] OTHER -> NullCell

\* pd.to_numeric(errors='coerce'): a number stays, a text of digits is parsed,
\* a date becomes its integer time stamp, a boolean stays a boolean, anything
\* else is NaN.
ToNumeric(v) ==
    CASE v.t = "int" -> v
      [] v.t = "bool" -> v
      [] v.t = "date" -> IntCell(v.n)
      [] v.t = "str" ->
            IF ParseNumber(v.s) >= 0 THEN IntCell(ParseNumber(v.s)) ELSE NullCell
      [] OTHER -> NullCell

\* The dictionary literal handed to Series.map, in source order, as
\* <<key, value>> pairs.
BOOL_MAP ==
    << <<BoolCell(TRUE), 1>>, <<BoolCell(FALSE), 0>>,
       <<StrCell(sTrue), 1>>, <<StrCell(sFalse), 0>>,
       <<StrCell(strue), 1>>, <<StrCell(sfalse), 0>>,
       <<StrCell(sYes), 1>>, <<StrCell(sNo), 0>>,
       <<StrCell(syes), 1>>, <<StrCell(sno), 0>>,
       <<IntCell(1), 1>>, <<IntCell(0), 0>> >>

\* Python's == (with equal hashes) between a cell and a dictionary key:
\* True == 1 and False == 0, texts are equal when spelled the same, and a
\* text never equals a number.
PyEq(a, b) ==
    \/ a.t = "str" /\ b.t = "str" /\ a.s = b.s
    \/ a.t \in {"bool", "int"} /\ b.t \in {"bool", "int"} /\ a.n = b.n

\* Whether the cell is found under this key of the dictionary.
BoolMapKeyMatch(v, key) == PyEq(v, key)

\* Series.map(dict): the value under the cell's key, a missing value when the
\* dictionary has no such key.
BoolMap(v) ==
    IF \E i \in 1..Len(BOOL_MAP) : BoolMapKeyMatch(v, BOOL_MAP[i][1])
    THEN LET i == CHOOSE j \in 1..Len(BOOL_MAP) : BoolMapKeyMatch(v, BOOL_MAP[j][1])
         IN  IntCell(BOOL_MAP[i][2])
    ELSE NullCell

\* One cell of column col through _convert_datatypes.
ConvertCell(col, v) ==
    CASE col \in date_columns -> ToDateText(v)
      [] col \in numeric_columns -> ToNumeric(v)
      [] col \in boolean_columns -> BoolMap(v)
      [] OTHER -> v

\* ------------------------------------------------------------------ tables

\* pd.DataFrame(): no column and no row.
EmptyFrame == [columns |-> {}, rows |-> <<>>]

\* df[c]: the cells of column c, in row order.
Column(df, c) == [i \in 1..Len(df.rows) |-> df.rows[i][c]]

\* A table with every cell rewritten by f(column, cell).
MapCells(df, f(_, _)) ==
    [columns |-> df.columns,
     rows |-> [i \in 1..Len(df.rows) |-> [c \in df.columns |-> f(c, df.rows[i][c])]]]

CleanOne(col, v) == CleanCell(v)

\* _clean_data on a table.
CleanData(df) == MapCells(df, CleanOne)

\* _convert_datatypes on a table: each column present is converted by its kind.
ConvertDatatypes(df) == MapCells(df, ConvertCell)

\* Whether pd.to_datetime gives no date column for these cells: texts with
\* different UTC offsets are parsed to time stamps of different time zones,
\* which pandas keeps as a column of objects.
MixedOffsets(cells) ==
    \E i, j \in 1..Len(cells) :
        /\ cells[i].t = "str" /\ cells[j].t = "str"
        /\ OffsetOf(cells[i].s) # 0 /\ OffsetOf(cells[j].s) # 0
        /\ OffsetOf(cells[i].s) # OffsetOf(cells[j].s)

\* Whether _convert_datatypes raises: the .dt accessor of a column that is no
\* date column raises AttributeError.
ConvertRaises(df) ==
    \E c \in date_columns \cap df.columns : MixedOffsets(Column(df, c))

\* --------------------------------------------- processor.py: _normalize_data

\* The headers of the table the loop copies: the keys of the mapping that are
\* columns of the table.
MappedHeaders(df, mapping) == {h \in DOMAIN mapping : h \in df.columns}

\* Variant of the mapping loop: df.rename(columns=mapping), which keeps the
\* columns the mapping does not know.
SelectColumnsRename(df, mapping) ==
    LET rename(h) == IF h \in DOMAIN mapping THEN mapping[h] ELSE h
        cols == {rename(h) : h \in df.columns}
    IN  [columns |-> cols,
         rows |-> [i \in 1..Len(df.rows) |->
                      [c \in cols |-> df.rows[i][CHOOSE h \in df.columns : rename(h) = c]]]]

\* Variant of the mapping loop: every canonical column of the mapping is
\* created, empty when its header is absent.
SelectColumnsAll(df, mapping) ==
    LET present == MappedHeaders(df, mapping)
        cols == {mapping[h] : h \in DOMAIN mapping}
    IN  [columns |-> cols,
         rows |-> [i \in 1..Len(df.rows) |->
                      [c \in cols |->
                          IF \E h \in present : mapping[h] = c
                          THEN df.rows[i][CHOOSE h \in present : mapping[h] = c]
                          ELSE NullCell]]]

\* Variant of the mapping loop: the first data row is taken for a header row.
SelectColumnsDropFirst(df, mapping) ==
    LET present == MappedHeaders(df, mapping)
        cols == {mapping[h] : h \in present}
        kept == IF df.rows = <<>> THEN <<>> ELSE Tail(df.rows)
    IN  [columns |-> cols,
         rows |-> IF present = {} THEN <<>>
                  ELSE [i \in 1..Len(kept) |->
                           [c \in cols |-> kept[i][CHOOSE h \in present : mapping[h] = c]]]]

\* The mapping loop: starting from an empty frame, each key of the mapping that
\* is a column of the table is copied under its canonical name.  The first
\* column assigned gives the frame its rows; a frame no column was assigned to
\* keeps none.
SelectColumns(df, mapping) ==
    LET present == MappedHeaders(df, mapping)
        cols == {mapping[h] : h \in present}
    IN  [columns |-> cols,
         rows |-> IF present = {} THEN <<>>
                  ELSE [i \in 1..Len(df.rows) |->
                           [c \in cols |-> df.rows[i][CHOOSE h \in present : mapping[h] = c]]]]

\* _normalize_data: copy the mapped columns, clean, convert.
NormalizeData(df, mapping) == ConvertDatatypes(CleanData(SelectColumns(df, mapping)))

\* Whether _normalize_data raises instead of returning that table.
NormalizeRaises(df, mapping) == ConvertRaises(CleanData(SelectColumns(df, mapping)))

\* --------------------------------------------- processor.py: _calculate_stats

\* What a cell of a numeric column adds to a sum: its number (True counts 1,
\* False 0), nothing when it is missing.
IsNumber(v) == v.t \in {"int", "bool"}

RECURSIVE SumCells(_)
SumCells(cells) ==
    IF cells = <<>> THEN 0
    ELSE (IF IsNumber(cells[1]) THEN cells[1].n ELSE 0) + SumCells(Tail(cells))

\* Variant of Series.sum() with min_count=1: the sum of no number is missing.
SeriesSumMut(cells) ==
    IF \E i \in 1..Len(cells) : IsNumber(cells[i])
    THEN IntCell(SumCells(cells))
    ELSE NullCell

\* Series.sum(): missing values are skipped (skipna=True) and the sum of no
\* value is 0 (min_count=0).
SeriesSum(cells) == IntCell(SumCells(cells))

\* pd.to_datetime(errors='coerce').dropna() on the payment dates of a
\* normalized table: the days of the cells that parse, in row order.
RECURSIVE ValidDates(_)
ValidDates(cells) ==
    IF cells = <<>> THEN <<>>
    ELSE (IF cells[1].t = "str" /\ ParseDate(cells[1].s) >= 0
          THEN <<ParseDate(cells[1].s)>>
          ELSE <<>>) \o ValidDates(Tail(cells))

\* Variant of min(): the first valid date.
MinDateMut(days) == days[1]

\* valid_dates.min() of a non-empty sequence of days.
RECURSIVE MinDate(_)
MinDate(days) ==
    IF Len(days) = 1 THEN days[1]
    ELSE LET m == MinDate(Tail(days)) IN IF days[1] <= m THEN days[1] ELSE m

\* valid_dates.max() of a non-empty sequence of days.
RECURSIVE MaxDate(_)
MaxDate(days) ==
    IF Len(days) = 1 THEN days[1]
    ELSE LET m == MaxDate(Tail(days)) IN IF days[1] >= m THEN days[1] ELSE m

\* date_range: None
NoRange == [none |-> TRUE]

\* The date range of a normalized table: None without a payment_date column
\* or without a valid date, else the first and last valid date as texts.
DateRange(df) ==
    IF "payment_date" \notin df.columns THEN NoRange
    ELSE LET valid_dates == ValidDates(Column(df, "payment_date"))
         IN  IF Len(valid_dates) > 0
             THEN [none |-> FALSE,
                   start |-> DateText(MinDate(valid_dates)),
                   end |-> DateText(MaxDate(valid_dates))]
             ELSE NoRange

\* The statistics of a normalized table: the count, the sum of amount and the
\* date range.  (The mean, the distinct counts and the breakdowns by
\* transaction type and agent are computed from the same table and change
\* nothing else.)
CalculateStats(df, carrier_name) ==
    [carrier |-> carrier_name,
     total_records |-> Len(df.rows),
     total_amount |-> IF "amount" \in df.columns
                      THEN SeriesSum(Column(df, "amount"))
                      ELSE IntCell(0),
     date_range |-> DateRange(df)]

\* ------------------------------------------------------------------- files

\* A file on disk: its name and suffix, whether it exists, whether the
\* spreadsheet reader can read it, and the table the reader returns.
MakeFile(name, suffix, exists, readable, df) ==
    [name |-> name, suffix |-> suffix, exists |-> exists, readable |-> readable,
     df |-> df]

\* pd.read_excel raises on a file that does not exist or is no spreadsheet.
CanRead(file) == file.exists /\ file.readable

\* ------------------------------------------------ processor.py: validate_file

MsgNotExcel == "El archivo debe ser Excel (.xlsx o .xls)"
MsgNotFound == "El archivo no existe"
MsgEmpty == "El archivo esta vacio"
MsgValid == "Archivo valido"
MsgReadError == "Error al leer el archivo: read_excel failed"

\* Variant of validate_file without the empty-file test.
IsEmptyFrameMut(df) == FALSE

\* len(df) == 0
IsEmptyFrame(df) == Len(df.rows) = 0

\* validate_file: (es_valido, mensaje).
ValidateFile(file) ==
    IF file.suffix \notin {".xlsx", ".xls"} THEN [ok |-> FALSE, message |-> MsgNotExcel]
    ELSE IF ~file.exists THEN [ok |-> FALSE, message |-> MsgNotFound]
    ELSE IF ~CanRead(file) THEN [ok |-> FALSE, message |-> MsgReadError]
    ELSE IF IsEmptyFrame(file.df) THEN [ok |-> FALSE, message |-> MsgEmpty]
    ELSE [ok |-> TRUE, message |-> MsgValid]

\* ---------------------------------------------- processor.py: detect_carrier

None == "None"

\* Variant of the comparison with >=: the last mapping with the largest
\* overlap wins.
BetterMatchMut(matches, max_matches) == matches >= max_matches

\* matches > max_matches: a later mapping replaces the best one only when it
\* matches strictly more headers.
BetterMatch(matches, max_matches) == matches > max_matches

\* The loop over the mappings from position i on, carrying best_match and
\* max_matches; it returns both.
RECURSIVE DetectLoop(_, _, _, _)
DetectLoop(columns, i, best_match, max_matches) ==
    IF i > Len(CarrierOrder) THEN [best_match |-> best_match, max_matches |-> max_matches]
    ELSE LET carrier == CarrierOrder[i]
             expected_cols == DOMAIN CARRIER_MAPPINGS[carrier]
             matches == Cardinality(columns \cap expected_cols)
         IN  IF BetterMatch(matches, max_matches)
             THEN DetectLoop(columns, i + 1, carrier, matches)
             ELSE DetectLoop(columns, i + 1, best_match, max_matches)

\* Variant of detect_carrier without the 50% threshold.
MeetsThresholdMut(max_matches, size) == TRUE

\* max_matches >= len(mapping) * 0.5
MeetsThreshold(max_matches, size) == 2 * max_matches >= size

\* Variant of detect_carrier that answers the first mapping, in table order,
\* with at least half of its keys among the headers.
DetectColumnsMut(columns) ==
    IF \E i \in 1..Len(CarrierOrder) :
          MeetsThreshold(Cardinality(columns \cap DOMAIN CARRIER_MAPPINGS[CarrierOrder[i]]),
                         Cardinality(DOMAIN CARRIER_MAPPINGS[CarrierOrder[i]]))
    THEN CarrierOrder[CHOOSE i \in 1..Len(CarrierOrder) :
            /\ MeetsThreshold(
                  Cardinality(columns \cap DOMAIN CARRIER_MAPPINGS[CarrierOrder[i]]),
                  Cardinality(DOMAIN CARRIER_MAPPINGS[CarrierOrder[i]]))
            /\ \A j \in 1..(i - 1) :
                  ~MeetsThreshold(
                     Cardinality(columns \cap DOMAIN CARRIER_MAPPINGS[CarrierOrder[j]]),
                     Cardinality(DOMAIN CARRIER_MAPPINGS[CarrierOrder[j]]))]
    ELSE None

\* detect_carrier on the header set of a readable file.
DetectColumns(columns) ==
    LET found == DetectLoop(columns, 1, None, 0)
    IN  IF found.best_match # None
           /\ MeetsThreshold(found.max_matches,
                             Cardinality(DOMAIN CARRIER_MAPPINGS[found.best_match]))
        THEN found.best_match
        ELSE None

\* detect_carrier: any exception of the reader is answered None.
DetectCarrier(file) ==
    IF ~CanRead(file) THEN None ELSE DetectColumns(file.df.columns)

\* ------------------------------------------------ processor.py: process_file

ErrUnsupported == "Carrier no soportado"
ErrRead == "read_excel failed"
ErrKey == "KeyError"
ErrDatabase == "sqlite3 error"
ErrAccessor == "Can only use .dt accessor with datetimelike values"
ErrPrefix == "Error al procesar archivo: "

NoStats ==
    [carrier |-> None, total_records |-> 0, total_amount |-> IntCell(0),
     date_range |-> [none |-> TRUE]]

\* Variant of process_file without the carrier check.
CarrierSupportedMut(carrier_name) == TRUE

\* carrier_name in self.carrier_mappings
CarrierSupported(carrier_name) == carrier_name \in DOMAIN CARRIER_MAPPINGS

\* process_file: the ValueError of an unsupported carrier comes first, then
\* the file is read, the mapping looked up, the table normalized and its
\* statistics computed.  steps lists what the call did, in order.
ProcessFile(file, carrier_name) ==
    IF ~CarrierSupported(carrier_name)
    THEN [raised |-> TRUE, error |-> ErrUnsupported, df |-> EmptyFrame,
          stats |-> NoStats, steps |-> <<>>]
    ELSE IF ~CanRead(file)
    THEN [raised |-> TRUE, error |-> ErrRead, df |-> EmptyFrame,
          stats |-> NoStats, steps |-> <<"read_excel">>]
    ELSE IF carrier_name \notin DOMAIN CARRIER_MAPPINGS
    THEN [raised |-> TRUE, error |-> ErrKey, df |-> EmptyFrame,
          stats |-> NoStats, steps |-> <<"read_excel">>]
    ELSE IF NormalizeRaises(file.df, CARRIER_MAPPINGS[carrier_name])
    THEN [raised |-> TRUE, error |-> ErrAccessor, df |-> EmptyFrame,
          stats |-> NoStats, steps |-> <<"read_excel", "_normalize_data">>]
    ELSE LET df_normalized == NormalizeData(file.df, CARRIER_MAPPINGS[carrier_name])
         IN  [raised |-> FALSE, error |-> "", df |-> df_normalized,
              stats |-> CalculateStats(df_normalized, carrier_name),
              steps |-> <<"read_excel", "_normalize_data", "_calculate_stats">>]

\* ------------------------- database.py: insert_bulk_commission_reports

\* The rows to_sql appends for a normalized table: each row with the three
\* metadata columns, and the id AUTOINCREMENT gives it.
NewRows(df, carrier_name, file_name, first_id, now) ==
    [i \in 1..Len(df.rows) |->
        [id |-> first_id + i - 1,
         carrier_name |-> carrier_name,
         report_file_name |-> file_name,
         upload_date |-> now,
         fields |-> df.rows[i]]]

\* Variant of the insert without a transaction: the rows before the refused
\* one stay.
CommittedRowsMut(rows, fail_at) ==
    IF fail_at = 0 THEN rows
    ELSE SubSeq(rows, 1, IF fail_at - 1 < Len(rows) THEN fail_at - 1 ELSE Len(rows))

\* to_sql inserts in one transaction: when the insert of row fail_at raises
\* (fail_at = 0: none does) the transaction is rolled back and no row of the
\* table stays.
CommittedRows(rows, fail_at) == IF fail_at = 0 THEN rows ELSE <<>>

\* Variant of the insert with if_exists='replace': the table is dropped and
\* holds the new rows alone.
AppendRowsMut(tbl, rows) == rows

\* if_exists='append' and INSERT INTO: the new rows follow the rows the table
\* holds.
AppendRows(tbl, rows) == tbl \o rows

\* insert_bulk_commission_reports on the table tbl of stored rows.
InsertBulk(tbl, df, carrier_name, file_name, first_id, now, fail_at) ==
    LET rows == NewRows(df, carrier_name, file_name, first_id, now)
        kept == CommittedRows(rows, fail_at)
    IN  [raised |-> fail_at # 0,
         table |-> AppendRows(tbl, kept),
         records_inserted |-> Len(df.rows)]

\* ------------------------------------- database.py: insert_commission_report

\* insert_commission_report(data): one INSERT of the columns data names.  The
\* table refuses a row without carrier_name (NOT NULL): the call raises and no
\* row is added.  upload_date is the column's default, the current time.
InsertOne(tbl, data, first_id, now) ==
    IF data.carrier_name = None
    THEN [raised |-> TRUE, table |-> tbl, record_id |-> 0]
    ELSE [raised |-> FALSE,
          table |-> AppendRows(tbl, <<[id |-> first_id,
                                       carrier_name |-> data.carrier_name,
                                       report_file_name |-> data.report_file_name,
                                       upload_date |-> now,
                                       fields |-> data.fields]>>),
          record_id |-> first_id]

\* ------------------------------------------------ database.py: the queries

\* The columns of commission_reports that hold canonical fields.
DataColumns ==
    {"payment_date", "statement_date", "payee_name", "payee_npn", "payee_type",
     "policy_number", "member_id", "insured_name", "effective_date",
     "transaction_type", "payout_type", "commission_type", "amount",
     "member_count", "lives", "writing_agent", "writing_agent_number",
     "assigned_agent_name", "state", "product", "new_to_medicare",
     "carrier_transaction_type", "block_reason", "commission_month",
     "generated_from"}

TimeColumns == {"upload_date", "created_at", "updated_at"}

TableColumns == {"id", "carrier_name", "report_file_name"} \cup TimeColumns \cup DataColumns

\* A name of the model (a carrier, a file) as the text of a cell, kept whole.
NameCell(name) == IF name = None THEN NullCell ELSE StrCell(<<name>>)

\* A time stamp as a cell.
TimeCell(now) == [t |-> "time", s |-> <<>>, n |-> now]

\* SELECT *: a stored row with every column of the table; a column the insert
\* did not name is NULL, the three time stamps are the time of the insert.
SelectRow(row) ==
    [c \in TableColumns |->
        CASE c = "id" -> IntCell(row.id)
          [] c = "carrier_name" -> NameCell(row.carrier_name)
          [] c = "report_file_name" -> NameCell(row.report_file_name)
          [] c \in TimeColumns -> TimeCell(row.upload_date)
          [] c \in DOMAIN row.fields -> row.fields[c]
          [] OTHER -> NullCell]

\* ORDER BY upload_date DESC: the orders (as sequences of positions of tbl) in
\* which the database may answer the rows.  Rows of one upload share their
\* upload_date and SQL leaves their order open.
DescOrders(tbl) ==
    {p \in [1..Len(tbl) -> 1..Len(tbl)] :
        /\ \A i, j \in 1..Len(tbl) : i # j => p[i] # p[j]
        /\ \A i, j \in 1..Len(tbl) :
              i < j => tbl[p[i]].upload_date >= tbl[p[j]].upload_date}

\* The rows of tbl in the order p.
Ordered(tbl, p) == [i \in 1..Len(tbl) |-> tbl[p[i]]]

\* Python's truth of the limit argument: None and 0 are false.
NoLimit == [given |-> FALSE, n |-> 0]

LimitOf(n) == [given |-> TRUE, n |-> n]

Truthy(limit) == limit.given /\ limit.n # 0

\* LIMIT n of SQLite: the first n rows; a negative n is no limit.
SqlLimit(rows, n) ==
    IF n < 0 \/ n >= Len(rows) THEN rows ELSE SubSeq(rows, 1, n)

\* get_all_reports(limit) answered in the order p: the LIMIT clause is added
\* only when limit is true.
AllReports(tbl, p, limit) ==
    IF Truthy(limit) THEN SqlLimit(Ordered(tbl, p), limit.n) ELSE Ordered(tbl, p)

\* Variant of the carrier filter without the WHERE clause.
CarrierFilterMut(row, carrier_name) == TRUE

\* WHERE carrier_name = ?
CarrierFilter(row, carrier_name) == row.carrier_name = carrier_name

\* get_reports_by_carrier(carrier_name) answered in the order p.
ReportsByCarrier(tbl, p, carrier_name) ==
    SelectSeq(Ordered(tbl, p), LAMBDA row : CarrierFilter(row, carrier_name))

\* SUM(amount): NULL when no row has a number, else the sum of the numbers.
SqlSum(cells) ==
    IF \E i \in 1..Len(cells) : IsNumber(cells[i])
    THEN IntCell(SumCells(cells))
    ELSE NullCell

\* COALESCE(v, d)
Coalesce(v, d) == IF IsNull(v) THEN d ELSE v

\* get_summary_stats: COUNT(*) and COALESCE(SUM(amount), 0).
SummaryStats(tbl) ==
    [total_records |-> Len(tbl),
     total_amount |->
        Coalesce(SqlSum([i \in 1..Len(tbl) |-> SelectRow(tbl[i])["amount"]]), IntCell(0))]

\* ---------------------------------------------- database.py: export_to_excel

\* The texts the spreadsheet reader takes for a missing value (of its default
\* list, those the model's cells can spell).
NaTexts == {sNan, sEmpty}

\* to_excel: a missing value is written as an empty cell, any other value as
\* it is.
WriteCell(v) == IF IsNull(v) THEN NullCell ELSE v

\* read_excel on a written cell: an empty cell and a text of the reader's
\* missing-value list are read as missing.
ReadCell(v) == IF v.t = "str" /\ v.s \in NaTexts THEN NullCell ELSE v

\* df.to_excel(output_path, index=False): the sheet has the columns of the
\* query and one row for each row of the query.
ToExcel(rows) ==
    [columns |-> TableColumns,
     rows |-> [i \in 1..Len(rows) |->
                 [c \in TableColumns |-> WriteCell(SelectRow(rows[i])[c])]]]

\* The exported file as a later read_excel returns it.
ExportedFile(sheet) ==
    MakeFile("export.xlsx", ".xlsx", TRUE, TRUE,
             [columns |-> sheet.columns,
              rows |-> [i \in 1..Len(sheet.rows) |->
                          [c \in sheet.columns |-> ReadCell(sheet.rows[i][c])]]])

\* export_to_excel(output_path, carrier_name) answered in the order p: the
\* query by carrier when carrier_name is true (not None, not ''), the query
\* of all rows otherwise.
ExportRows(tbl, p, carrier_name) ==
    IF carrier_name # None /\ carrier_name # ""
    THEN ReportsByCarrier(tbl, p, carrier_name)
    ELSE AllReports(tbl, p, NoLimit)

\* --------------------------------------------- processor.py: process_and_save

\* The class of the exception behind an error text: the ValueError of
\* process_file, the AttributeError of the .dt accessor, the KeyError of a
\* missing mapping, the error of the database, and any other error of the
\* reader.
ExceptionClass(error) ==
    CASE error = ErrUnsupported -> "ValueError"
      [] error = ErrAccessor -> "AttributeError"
      [] error = ErrKey -> "KeyError"
      [] error = ErrDatabase -> "sqlite3.Error"
      [] OTHER -> "Exception"

\* Variant of the handler that names one class: except ValueError.
CaughtMut(class) == class = "ValueError"

\* except Exception as e: the handler catches every class that derives from
\* Exception, which all of the above do.
Caught(class) ==
    class \in {"ValueError", "AttributeError", "KeyError", "sqlite3.Error", "Exception"}

\* A returned dictionary with success False.
Failure(message, steps) ==
    [done |-> TRUE, raised |-> FALSE, success |-> FALSE, error |-> message,
     records_inserted |-> 0, stats |-> NoStats, df |-> EmptyFrame, steps |-> steps]

\* An exception raised inside the try block: the handler answers it with
\* success False and the prefixed text; one it does not catch leaves
\* process_and_save and reaches the caller, and no dictionary is returned.
Except(error, steps) ==
    IF Caught(ExceptionClass(error))
    THEN Failure(ErrPrefix \o error, steps)
    ELSE [done |-> TRUE, raised |-> TRUE, success |-> FALSE, error |-> "",
          records_inserted |-> 0, stats |-> NoStats, df |-> EmptyFrame,
          steps |-> steps]

\* process_and_save: validate, process, insert; every exception is answered
\* with success False.  It returns the result and the table afterwards.
ProcessAndSaveCall(file, carrier_name, tbl, first_id, now, fail_at) ==
    LET valid == ValidateFile(file)
        processed == ProcessFile(file, carrier_name)
        inserted == InsertBulk(tbl, processed.df, carrier_name, file.name,
                               first_id, now, fail_at)
    IN  IF ~valid.ok
        THEN [result |-> Failure(valid.message, <<"validate_file">>), table |-> tbl]
        ELSE IF processed.raised
        THEN [result |-> Except(processed.error,
                                <<"validate_file">> \o processed.steps),
              table |-> tbl]
        ELSE IF inserted.raised
        THEN [result |-> Except(ErrDatabase,
                                <<"validate_file">> \o processed.steps \o <<"insert">>),
              table |-> inserted.table]
        ELSE [result |-> [done |-> TRUE, raised |-> FALSE, success |-> TRUE,
                          error |-> "",
                          records_inserted |-> inserted.records_inserted,
                          stats |-> processed.stats, df |-> processed.df,
                          steps |-> <<"validate_file">> \o processed.steps
                                    \o <<"insert">>],
              table |-> inserted.table]

\* ------------------------------------------------------------- the inputs

\* The cells a spreadsheet of the model holds: blanks, booleans, numbers,
\* dates, and texts in the spellings the conversions tell apart.
CellValues ==
    << NullCell, BoolCell(TRUE), BoolCell(FALSE), IntCell(1), IntCell(0), IntCell(2),
       StrCell(sYes), StrCell(syes), StrCell(sYES), StrCell(sNo), StrCell(sno),
       StrCell(sNO), StrCell(sTrue), StrCell(strue), StrCell(sTRUE), StrCell(sFalse),
       StrCell(sfalse), StrCell(sfAlse), StrCell(sOne), StrCell(sZero), StrCell(sNan),
       StrCell(sEmpty), StrCell(sBlank), StrCell(sYesPadded), StrCell(sMaybe),
       StrCell(sTwelve), StrCell(DateText(3)), StrCell(DateTextUS(4)), DateCell(5),
       DateCell(2) >>

\* Headers no mapping knows; "amount" is spelled like a canonical field name.
UnmappedHeaders == {"Notes", "amount"}

\* What a column of an unmapped header holds in every row.
UnmappedCell == IntCell(7)

\* A table with the given headers and n rows: row i holds the (k + i - 1)-th
\* cell value (wrapping around) under every header a mapping knows, and
\* UnmappedCell under the others.
MakeTable(headers, n, k) ==
    [columns |-> headers,
     rows |-> [i \in 1..n |->
                 [h \in headers |->
                     IF h \in UnmappedHeaders THEN UnmappedCell
                     ELSE CellValues[((k + i - 2) % Len(CellValues)) + 1]]]]

Keys(carrier) == DOMAIN CARRIER_MAPPINGS[carrier]

\* The header sets of the tables normalized: each carrier's exact vocabulary,
\* alone and with the unmapped headers beside it, and a few small ones.
NormalizeHeaderSets ==
    {Keys(c) : c \in AVAILABLE_CARRIERS}
    \cup {Keys(c) \cup UnmappedHeaders : c \in AVAILABLE_CARRIERS}
    \cup {{}, {"Notes"}, {"Amount", "amount"}, {"NewToMedicare", "Notes"},
          {"Commission", "Effective Date", "amount"}}

\* Cells of a date column exported with its time zone: midnight of a day with
\* one offset or the other, and a blank.
OffsetCells ==
    <<StrCell(DateTextOffset(6, 1)), StrCell(DateTextOffset(6, 2)), NullCell>>

\* Every sequence of 1 to n of these cells.
RECURSIVE CellSeqs(_)
CellSeqs(n) ==
    IF n = 0 THEN {}
    ELSE CellSeqs(n - 1) \cup [1..n -> {OffsetCells[k] : k \in 1..Len(OffsetCells)}]

\* A table with the given headers whose row i holds cells[i] under every
\* header.
MakeTableOf(headers, cells) ==
    [columns |-> headers,
     rows |-> [i \in 1..Len(cells) |-> [h \in headers |-> cells[i]]]]

\* A spreadsheet without a header has no data row either.
NormalizeTables ==
    {MakeTable(hs, IF hs = {} THEN 0 ELSE n, k) :
        hs \in NormalizeHeaderSets, n \in 0..MaxRows, k \in 1..Len(CellValues)}
    \cup {MakeTableOf(Keys(c), cells) : c \in AVAILABLE_CARRIERS, cells \in CellSeqs(MaxRows)}

\* The carrier names a caller passes: the supported ones and one that is not.
CarrierNames == AVAILABLE_CARRIERS \cup {"HUMANA"}

\* The files ingested: wrong suffix, missing, unreadable, without data rows,
\* readable spreadsheets of one to MaxRows rows, and one whose dates are
\* spelled with two different UTC offsets.
Files ==
    { MakeFile("notes.csv", ".csv", TRUE, TRUE, MakeTable(Keys("MOLINA"), 1, 4)),
      MakeFile("missing.xlsx", ".xlsx", FALSE, FALSE, EmptyFrame),
      MakeFile("corrupt.xlsx", ".xlsx", TRUE, FALSE, EmptyFrame),
      MakeFile("empty.xlsx", ".xlsx", TRUE, TRUE, MakeTable(Keys("MOLINA"), 0, 1)),
      MakeFile("molina.xlsx", ".xlsx", TRUE, TRUE,
               MakeTable(Keys("MOLINA") \cup UnmappedHeaders, 1, 7)),
      MakeFile("oscar.xls", ".xls", TRUE, TRUE, MakeTable(Keys("OSCAR"), MaxRows, 4)),
      MakeFile("other.xlsx", ".xlsx", TRUE, TRUE, MakeTable(UnmappedHeaders, 1, 1)),
      MakeFile("zones.xlsx", ".xlsx", TRUE, TRUE,
               MakeTableOf({"Payment Date"}, <<OffsetCells[1], OffsetCells[2]>>)) }

\* ------------------------------------------------------------------- state

VARIABLES
    store,      \* the rows of commission_reports, in insertion order
    next_id,    \* the id AUTOINCREMENT gives the next row
    clock,      \* datetime.now(), as a counter
    call,       \* the operation last called, with its arguments
    result,     \* what it returned ([done |-> FALSE] before it returns)
    deleting    \* the delete_all_records call under way: its position and count

vars == <<store, next_id, clock, call, result, deleting>>

Pending == [done |-> FALSE]

\* No delete_all_records call is under way.
Idle == [pc |-> "idle", count |-> 0]

EmptyStore ==
    /\ store = <<>>
    /\ next_id = 1
    /\ clock = 1
    /\ deleting = Idle

\* ------------------------------------------------------- Spec: ingestion

Init ==
    /\ EmptyStore
    /\ call = [op |-> "none"]
    /\ result = Pending

\* process_and_save(file, carrier_name, db): the whole call, the insert's
\* transaction included.  fail_at is the row whose insert the database
\* refuses (0: none).
ProcessAndSave(file, carrier_name, fail_at) ==
    /\ Len(store) + Len(file.df.rows) <= MaxStore
    /\ next_id + Len(file.df.rows) - 1 <= MaxId
    /\ LET out == ProcessAndSaveCall(file, carrier_name, store, next_id, clock, fail_at)
           added == Len(out.table) - Len(store)
       IN  /\ store' = out.table
           /\ next_id' = next_id + added
           /\ clock' = IF added > 0 THEN clock + 1 ELSE clock
           /\ result' = out.result
    /\ call' = [op |-> "process_and_save", file |-> file,
                carrier_name |-> carrier_name, fail_at |-> fail_at]
    /\ UNCHANGED deleting

Next ==
    \E file \in Files, carrier_name \in CarrierNames :
        \E fail_at \in 0..Len(file.df.rows) :
            ProcessAndSave(file, carrier_name, fail_at)

Spec == Init /\ [][Next]_vars

\* ------------------------------------------- SpecStore: the store's operations

\* The file the last export wrote is ingested like any other file.
ProcessExported(carrier_name) ==
    /\ call.op = "export_to_excel"
    /\ ProcessAndSave(ExportedFile(result.sheet), carrier_name, 0)

\* The dictionaries given to insert_commission_report: one row of a carrier,
\* and one without the carrier name the table requires.
Reports ==
    { [carrier_name |-> "AETNA", report_file_name |-> None,
       fields |-> [amount |-> IntCell(2)]],
      [carrier_name |-> None, report_file_name |-> "manual.xlsx",
       fields |-> [amount |-> IntCell(1)]] }

\* insert_commission_report(data)
InsertCommissionReport(data) ==
    /\ Len(store) + 1 <= MaxStore
    /\ next_id <= MaxId
    /\ LET out == InsertOne(store, data, next_id, clock)
       IN  /\ store' = out.table
           /\ next_id' = IF out.raised THEN next_id ELSE next_id + 1
           /\ clock' = IF out.raised THEN clock ELSE clock + 1
           /\ result' = [done |-> TRUE, raised |-> out.raised,
                         record_id |-> out.record_id]
    /\ call' = [op |-> "insert_commission_report", data |-> data]
    /\ UNCHANGED deleting

\* The limits given to get_all_reports: none, and small integers.
Limits == {NoLimit} \cup {LimitOf(n) : n \in -1..1}

\* get_all_reports(limit)
GetAllReports(limit) ==
    /\ \E p \in DescOrders(store) :
          result' = [done |-> TRUE, rows |-> AllReports(store, p, limit)]
    /\ call' = [op |-> "get_all_reports", limit |-> limit]
    /\ UNCHANGED <<store, next_id, clock, deleting>>

\* get_reports_by_carrier(carrier_name)
GetReportsByCarrier(carrier_name) ==
    /\ \E p \in DescOrders(store) :
          result' = [done |-> TRUE, rows |-> ReportsByCarrier(store, p, carrier_name)]
    /\ call' = [op |-> "get_reports_by_carrier", carrier_name |-> carrier_name]
    /\ UNCHANGED <<store, next_id, clock, deleting>>

\* get_summary_stats()
GetSummaryStats ==
    /\ result' = [done |-> TRUE, stats |-> SummaryStats(store)]
    /\ call' = [op |-> "get_summary_stats"]
    /\ UNCHANGED <<store, next_id, clock, deleting>>

\* The carrier filters given to export_to_excel: none, the empty text, a
\* carrier.
ExportFilters == {None, "", "OSCAR"}

\* export_to_excel(output_path, carrier_name): rows is what the query
\* answered, sheet what was written.
ExportToExcel(carrier_name) ==
    /\ \E p \in DescOrders(store) :
          LET rows == ExportRows(store, p, carrier_name)
          IN  result' = [done |-> TRUE, rows |-> rows, sheet |-> ToExcel(rows)]
    /\ call' = [op |-> "export_to_excel", carrier_name |-> carrier_name]
    /\ UNCHANGED <<store, next_id, clock, deleting>>

\* delete_all_records, its first statement: SELECT COUNT(*).  Each call opens
\* its own connection and the count is read outside any transaction, so the
\* calls of another session run between this statement and the next.
DeleteCount ==
    /\ deleting.pc = "idle"
    /\ deleting' = [pc |-> "counted", count |-> Len(store)]
    /\ UNCHANGED <<store, next_id, clock, call, result>>

\* delete_all_records, its second statement and its return: DELETE FROM
\* commission_reports, commit, return count.
DeleteExecute ==
    /\ deleting.pc = "counted"
    /\ store' = <<>>
    /\ deleting' = Idle
    /\ call' = [op |-> "delete_all_records"]
    /\ result' = [done |-> TRUE, count |-> deleting.count]
    /\ UNCHANGED <<next_id, clock>>

\* The uploads of the sessions that share the store: a file with its
\* carrier, and whether the database refuses its first row.
Uploads ==
    { [file |-> f, carrier_name |-> c, fail_at |-> k] :
        f \in {g \in Files : g.name = "molina.xlsx"}, c \in {"MOLINA"}, k \in 0..1 }
    \cup { [file |-> f, carrier_name |-> c, fail_at |-> 0] :
              f \in {g \in Files : g.name = "oscar.xls"}, c \in {"OSCAR"} }

NextStore ==
    \/ \E u \in Uploads : ProcessAndSave(u.file, u.carrier_name, u.fail_at)
    \/ \E carrier_name \in {"MOLINA", "OSCAR"} : ProcessExported(carrier_name)
    \/ \E data \in Reports : InsertCommissionReport(data)
    \/ \E limit \in Limits : GetAllReports(limit)
    \/ \E carrier_name \in {"MOLINA", "OSCAR"} : GetReportsByCarrier(carrier_name)
    \/ GetSummaryStats
    \/ \E carrier_name \in ExportFilters : ExportToExcel(carrier_name)
    \/ DeleteCount
    \/ DeleteExecute

SpecStore == Init /\ [][NextStore]_vars

\* ------------------------------------------- SpecNormalize: _normalize_data

InitNormalize ==
    /\ EmptyStore
    /\ call \in {[op |-> "_normalize_data", df |-> df, carrier_name |-> c] :
                    df \in NormalizeTables, c \in AVAILABLE_CARRIERS}
    /\ result = Pending

\* _normalize_data(df, mapping, carrier_name): it raises or returns the table
\* df; cleaned is the table between _clean_data and _convert_datatypes.
Normalize ==
    /\ call.op = "_normalize_data"
    /\ ~result.done
    /\ result' =
          IF NormalizeRaises(call.df, CARRIER_MAPPINGS[call.carrier_name])
          THEN [done |-> TRUE, raised |-> TRUE, error |-> ErrAccessor]
          ELSE [done |-> TRUE, raised |-> FALSE,
                cleaned |-> CleanData(SelectColumns(call.df,
                                                    CARRIER_MAPPINGS[call.carrier_name])),
                df |-> NormalizeData(call.df, CARRIER_MAPPINGS[call.carrier_name])]
    /\ UNCHANGED <<store, next_id, clock, call, deleting>>

\* _calculate_stats(df_normalized, carrier_name) on the table just normalized.
Aggregate ==
    /\ call.op = "_normalize_data"
    /\ result.done /\ ~result.raised
    /\ "stats" \notin DOMAIN result
    /\ result' = [done |-> TRUE, raised |-> FALSE,
                  cleaned |-> result.cleaned, df |-> result.df,
                  stats |-> CalculateStats(result.df, call.carrier_name)]
    /\ UNCHANGED <<store, next_id, clock, call, deleting>>

NextNormalize == Normalize \/ Aggregate

SpecNormalize == InitNormalize /\ [][NextNormalize]_vars

\* ----------------------------------------------- SpecDetect: detect_carrier

AllHeaders == UNION {Keys(c) : c \in AVAILABLE_CARRIERS}

\* The carriers whose mapping knows a header.  detect_carrier only counts
\* headers per mapping, so two headers known to the same carriers are
\* interchangeable: it is enough to take, from each such class of headers,
\* every number of headers.
KnownTo(h) == {c \in AVAILABLE_CARRIERS : h \in Keys(c)}

HeaderClasses == {{h \in AllHeaders : KnownTo(h) = KnownTo(g)} : g \in AllHeaders}

RECURSIVE SetToSeq(_)
SetToSeq(S) ==
    IF S = {} THEN <<>>
    ELSE LET x == CHOOSE y \in S : TRUE IN <<x>> \o SetToSeq(S \ {x})

ClassSeqs == SetToSeq({SetToSeq(cls) : cls \in HeaderClasses})

\* Every union of one prefix of each class from position i on.
RECURSIVE PrefixUnions(_)
PrefixUnions(i) ==
    IF i > Len(ClassSeqs) THEN {{}}
    ELSE {{ClassSeqs[i][j] : j \in 1..n} \cup rest :
             n \in 0..Len(ClassSeqs[i]), rest \in PrefixUnions(i + 1)}

\* Header sets no prefix union gives: headers no mapping knows.
OtherDetectHeaderSets == {{"Notes"}, UnmappedHeaders, Keys("OSCAR") \cup {"Notes"}}

DetectFile(headers) == MakeFile("report.xlsx", ".xlsx", TRUE, TRUE, MakeTable(headers, 0, 1))

UnreadableFiles ==
    {MakeFile("corrupt.xlsx", ".xlsx", TRUE, FALSE, EmptyFrame),
     MakeFile("missing.xlsx", ".xlsx", FALSE, FALSE, EmptyFrame)}

InitDetect ==
    /\ EmptyStore
    /\ \E f \in {DetectFile(hs) : hs \in PrefixUnions(1) \cup OtherDetectHeaderSets}
               \cup UnreadableFiles :
          call = [op |-> "detect_carrier", file |-> f]
    /\ result = Pending

\* detect_carrier(file_path)
Detect ==
    /\ call.op = "detect_carrier"
    /\ ~result.done
    /\ result' = [done |-> TRUE, carrier |-> DetectCarrier(call.file)]
    /\ UNCHANGED <<store, next_id, clock, call, deleting>>

NextDetect == Detect

SpecDetect == InitDetect /\ [][NextDetect]_vars

\* ================================================================== claims

\* The step just taken was a process_and_save call.
Ingested == call'.op = "process_and_save"

\* C1: an ingestion whose carrier name is not a key of the mapping table is
\* rejected before any normalization: the call does nothing after
\* validate_file (process_file reads no spreadsheet, normalizes nothing, no
\* insert is tried), it returns success False, and the store is as before.
C1_UnsupportedCarrierRejected ==
    [][(Ingested /\ call'.carrier_name \notin DOMAIN CARRIER_MAPPINGS)
        => /\ ~result'.success
           /\ result'.steps = <<"validate_file">>
           /\ store' = store]_vars

\* C1 witness: an unsupported carrier name given with a valid spreadsheet,
\* answered with the unsupported-carrier error while the store holds rows.
C1_Witness ==
    /\ call.op = "process_and_save"
    /\ call.carrier_name = "HUMANA"
    /\ ValidateFile(call.file).ok
    /\ result.done /\ ~result.success
    /\ result.error = ErrPrefix \o ErrUnsupported
    /\ Len(store) > 0

\* C2: a file with zero data rows, or one the reader cannot read, is refused
\* by validate_file with a non-empty message; process_and_save returns
\* success False with exactly that message and leaves the store unchanged.
C2_EmptyOrUnreadableRejected ==
    [][(Ingested /\ (~CanRead(call'.file) \/ Len(call'.file.df.rows) = 0))
        => /\ ~ValidateFile(call'.file).ok
           /\ ValidateFile(call'.file).message # ""
           /\ ~result'.success
           /\ result'.error = ValidateFile(call'.file).message
           /\ store' = store]_vars

\* C2 witness: a readable spreadsheet without data rows was refused as empty
\* while the store holds rows.
C2_Witness ==
    /\ call.op = "process_and_save"
    /\ call.file.suffix = ".xlsx" /\ CanRead(call.file)
    /\ Len(call.file.df.rows) = 0
    /\ result.done /\ ~result.success
    /\ result.error = MsgEmpty
    /\ Len(store) > 0

\* C3: ingestion is all-or-nothing per file: after a process_and_save call
\* the store is its previous rows followed by every row of the normalized
\* file (success), or exactly its previous rows (failure).
C3_AllOrNothing ==
    [][Ingested =>
        \/ /\ result'.success
           /\ LET normalized == NormalizeData(call'.file.df,
                                              CARRIER_MAPPINGS[call'.carrier_name])
              IN  /\ Len(store') = Len(store) + Len(normalized.rows)
                  /\ SubSeq(store', 1, Len(store)) = store
                  /\ \A i \in 1..Len(normalized.rows) :
                        store'[Len(store) + i].fields = normalized.rows[i]
        \/ /\ ~result'.success
           /\ store' = store]_vars

\* C3 witness: the database refused the second row of a file while the store
\* held rows, and the call failed.
C3_Witness ==
    /\ call.op = "process_and_save"
    /\ call.fail_at = 2
    /\ result.done /\ ~result.success
    /\ result.steps[Len(result.steps)] = "insert"
    /\ Len(store) > 0

\* _normalize_data returned a table.
Normalized == call.op = "_normalize_data" /\ result.done /\ ~result.raised

\* C4: for each supported carrier, a table whose header set is exactly the
\* carrier's mapping keys is normalized to a table with as many rows.
C4_RowCountKept ==
    (result.done /\ call.op = "_normalize_data"
        /\ call.df.columns = DOMAIN CARRIER_MAPPINGS[call.carrier_name])
    => /\ ~result.raised
       /\ Len(result.df.rows) = Len(call.df.rows)

\* C4 witness: a table of the carrier's exact vocabulary with the most rows
\* was normalized.
C4_Witness ==
    /\ Normalized
    /\ call.df.columns = DOMAIN CARRIER_MAPPINGS[call.carrier_name]
    /\ Len(call.df.rows) = MaxRows
    /\ Len(result.df.rows) = MaxRows

\* The input headers the mapping of the call does not know.
UnmappedInCall == call.df.columns \ DOMAIN CARRIER_MAPPINGS[call.carrier_name]

\* C5 as stated: no input header that is not a key of the mapping is a
\* column name of the normalized output.
C5_NoUnmappedHeaderInOutput ==
    Normalized
    => \A h \in UnmappedInCall : h \notin result.df.columns

\* C5 amended: an input header that is not a key of the mapping is a column
\* name of the output only if it is spelled like the canonical name of a
\* mapped header of the input, and that column holds the mapped header's
\* cells (cleaned and converted), never the unmapped column's.
C5_UnmappedHeaderContributesNothing ==
    Normalized
    => \A h \in UnmappedInCall :
          h \in result.df.columns
          => \E k \in call.df.columns \cap DOMAIN CARRIER_MAPPINGS[call.carrier_name] :
                /\ CARRIER_MAPPINGS[call.carrier_name][k] = h
                /\ \A i \in 1..Len(call.df.rows) :
                      /\ result.df.rows[i][h] = ConvertCell(h, CleanCell(call.df.rows[i][k]))
                      /\ result.df.rows[i][h] # call.df.rows[i][h]

\* C5 witness: the input has the unmapped headers "Notes" and "amount" and the
\* mapped header whose canonical name is "amount"; the output has a column
\* "amount" and no column "Notes".
C5_Witness ==
    /\ Normalized
    /\ {"Notes", "amount"} \subseteq UnmappedInCall
    /\ Len(call.df.rows) > 0
    /\ "amount" \in result.df.columns
    /\ "Notes" \notin result.df.columns

Overlap(carrier) == Cardinality(call.file.df.columns \cap DOMAIN CARRIER_MAPPINGS[carrier])

MappingSize(carrier) == Cardinality(DOMAIN CARRIER_MAPPINGS[carrier])

\* detect_carrier returned for a file the reader can read.
Detected == result.done /\ call.op = "detect_carrier" /\ CanRead(call.file)

\* C7: a table whose headers overlap every mapping in fewer than half of the
\* mapping's keys is detected as unknown (None).
C7_BelowHalfIsUnknown ==
    (Detected /\ \A c \in AVAILABLE_CARRIERS : 2 * Overlap(c) < MappingSize(c))
    => result.carrier = None

\* C7 witness: a table one header short of half of MOLINA's keys, and short
\* of half of every other mapping, was detected as unknown.
C7_Witness ==
    /\ Detected
    /\ \A c \in AVAILABLE_CARRIERS : 2 * Overlap(c) < MappingSize(c)
    /\ 2 * (Overlap("MOLINA") + 1) >= MappingSize("MOLINA")
    /\ result.carrier = None

\* The largest overlap of the detected file with a mapping.
MaxOverlap == CHOOSE m \in 0..Cardinality(AllHeaders) :
                 /\ \A c \in AVAILABLE_CARRIERS : Overlap(c) <= m
                 /\ \E c \in AVAILABLE_CARRIERS : Overlap(c) = m

\* The first carrier, in the order of the mapping table, with that overlap.
FirstWithMaxOverlap ==
    CarrierOrder[CHOOSE i \in 1..Len(CarrierOrder) :
                    /\ Overlap(CarrierOrder[i]) = MaxOverlap
                    /\ \A j \in 1..(i - 1) : Overlap(CarrierOrder[j]) < MaxOverlap]

\* C8: detect_carrier answers the first mapping in table order with the
\* largest overlap when that overlap is at least half of that mapping's
\* keys, and unknown otherwise, also when another mapping with a smaller
\* overlap reaches half of its own keys.
C8_FirstLargestOverlapOrUnknown ==
    Detected
    => result.carrier =
          IF 2 * MaxOverlap >= MappingSize(FirstWithMaxOverlap)
          THEN FirstWithMaxOverlap
          ELSE None

\* C8 witness: the largest overlap is below half of its mapping, another
\* mapping with a smaller overlap reaches half of its own keys, and the
\* answer is unknown.
C8_Witness ==
    /\ Detected
    /\ 2 * MaxOverlap < MappingSize(FirstWithMaxOverlap)
    /\ \E c \in AVAILABLE_CARRIERS :
          /\ Overlap(c) < MaxOverlap
          /\ 2 * Overlap(c) >= MappingSize(c)
    /\ result.carrier = None

\* Two mappings share the largest overlap, which reaches half of the first
\* one's keys, and the first one in table order is the answer.
C8_TieReached ==
    /\ Detected
    /\ \E c \in AVAILABLE_CARRIERS \ {FirstWithMaxOverlap} : Overlap(c) = MaxOverlap
    /\ result.carrier = FirstWithMaxOverlap

\* The cell the boolean coercion of row i was given, and what it answered.
BoolIn(i) == result.cleaned.rows[i]["new_to_medicare"]

BoolOut(i) == result.df.rows[i]["new_to_medicare"]

\* A table with a new_to_medicare column was normalized.
Coerced == Normalized /\ "new_to_medicare" \in result.df.columns

\* C9: the boolean coercion maps "Yes", "yes", "1", 1, True to true, "No",
\* "no", "0", 0, False to false, and every other value to null.
C9_BooleanCoercionTable ==
    Coerced
    => \A i \in 1..Len(result.df.rows) :
          BoolOut(i) =
             IF BoolIn(i) \in {StrCell(sYes), StrCell(syes), StrCell(sOne),
                               IntCell(1), BoolCell(TRUE)}
             THEN IntCell(1)
             ELSE IF BoolIn(i) \in {StrCell(sNo), StrCell(sno), StrCell(sZero),
                                    IntCell(0), BoolCell(FALSE)}
             THEN IntCell(0)
             ELSE NullCell

\* C10: the boolean coercion matches the vocabulary true, false, yes, no, 1, 0
\* without regard to letter case: a text in any capitalisation is mapped like
\* its lower-case form, and anything outside the vocabulary becomes null.
C10_BooleanCoercionIgnoresCase ==
    Coerced
    => \A i \in 1..Len(result.df.rows) :
          BoolOut(i) =
             IF \/ BoolIn(i).t = "str" /\ Lower(BoolIn(i).s) \in {strue, syes, sOne}
                \/ BoolIn(i) \in {IntCell(1), BoolCell(TRUE)}
             THEN IntCell(1)
             ELSE IF \/ BoolIn(i).t = "str" /\ Lower(BoolIn(i).s) \in {sfalse, sno, sZero}
                     \/ BoolIn(i) \in {IntCell(0), BoolCell(FALSE)}
             THEN IntCell(0)
             ELSE NullCell

\* The aggregator ran on the table just normalized.
Aggregated == Normalized /\ "stats" \in DOMAIN result

\* C11: the aggregator's total amount is the number 0 for a normalized table
\* without rows, with or without an amount column, and for a table whose
\* amount values are all null.
C11_EmptySumIsZero ==
    (Aggregated
        /\ \/ Len(result.df.rows) = 0
           \/ /\ "amount" \in result.df.columns
              /\ \A i \in 1..Len(result.df.rows) : IsNull(result.df.rows[i]["amount"]))
    => result.stats.total_amount = IntCell(0)

\* C11 witness: a table with rows whose amount cells (unparseable or blank
\* texts) all became null was aggregated to the total 0.
C11_Witness ==
    /\ Aggregated
    /\ "amount" \in result.df.columns
    /\ Len(result.df.rows) = MaxRows
    /\ \A i \in 1..Len(result.df.rows) :
          /\ IsNull(result.df.rows[i]["amount"])
          /\ ~IsNull(call.df.rows[i][CHOOSE h \in call.df.columns :
                    h \in DOMAIN CARRIER_MAPPINGS[call.carrier_name]
                    /\ CARRIER_MAPPINGS[call.carrier_name][h] = "amount"])
    /\ result.stats.total_amount = IntCell(0)

\* A table without rows but with an amount column was aggregated to 0.
C11_NoRowsReached ==
    /\ Aggregated
    /\ "amount" \in result.df.columns
    /\ Len(result.df.rows) = 0
    /\ result.stats.total_amount = IntCell(0)

\* The step just taken ingested, with carrier c, the file the export before it
\* wrote, and every exported row was a row of carrier c.
ReIngested(c) ==
    /\ call.op = "export_to_excel"
    /\ Len(result.rows) > 0
    /\ \A i \in 1..Len(result.rows) : result.rows[i].carrier_name = c
    /\ call'.op = "process_and_save"
    /\ call'.file = ExportedFile(result.sheet)
    /\ call'.carrier_name = c

\* C12: round trip: a normalized table exported to a spreadsheet and ingested
\* again with the same carrier gives a table with the same rows and the same
\* value in every canonical field.
C12_ExportImportRoundTrip ==
    [][\A c \in AVAILABLE_CARRIERS :
          ReIngested(c)
          => /\ result'.success
             /\ Len(result'.df.rows) = Len(result.rows)
             /\ \A i \in 1..Len(result.rows) :
                   \A f \in DOMAIN result.rows[i].fields :
                      /\ f \in result'.df.columns
                      /\ result'.df.rows[i][f] = result.rows[i].fields[f]]_vars

\* What the code does on the round trip: the exported file was ingested with
\* success, no column was copied and no row was inserted.
C12_ReIngestedNothing ==
    /\ call.op = "process_and_save"
    /\ call.file.name = "export.xlsx"
    /\ call.file.df.columns = TableColumns
    /\ Len(call.file.df.rows) > 0
    /\ result.success
    /\ result.df = EmptyFrame
    /\ result.records_inserted = 0

\* A text of the form YYYY-MM-DD.
IsIsoDate(v) ==
    /\ v.t = "str"
    /\ Len(v.s) = 10
    /\ \A i \in {1, 2, 3, 4, 6, 7, 9, 10} : IsDigit(v.s[i])
    /\ v.s[5] = "-" /\ v.s[8] = "-"

\* C13: in every normalized table each amount value is a number or null and
\* each payment_date, statement_date and effective_date value is a text
\* YYYY-MM-DD or null, whatever the input cells hold.
C13_AmountNumericDatesIso ==
    Normalized
    => \A i \in 1..Len(result.df.rows) :
          /\ "amount" \in result.df.columns
                => (IsNumber(result.df.rows[i]["amount"])
                    \/ IsNull(result.df.rows[i]["amount"]))
          /\ \A c \in date_columns \cap result.df.columns :
                IsIsoDate(result.df.rows[i][c]) \/ IsNull(result.df.rows[i][c])

\* C13 witness: a table with amount and date columns was normalized in which
\* one row's cells (a text of digits) gave a number as amount, and another
\* row's cells (a text spelling a date) gave a null amount and an ISO date.
C13_Witness ==
    /\ Normalized
    /\ {"amount", "payment_date"} \subseteq result.df.columns
    /\ \E i, j \in 1..Len(result.df.rows) :
          /\ result.cleaned.rows[i]["amount"] = StrCell(sTwelve)
          /\ result.df.rows[i]["amount"] = IntCell(12)
          /\ result.cleaned.rows[j]["payment_date"] = StrCell(DateText(3))
          /\ result.df.rows[j]["payment_date"] = StrCell(DateText(3))
          /\ IsNull(result.df.rows[j]["amount"])

\* A date written the US way became an ISO date, and a date cell too.
C13_DatesReached ==
    /\ Normalized
    /\ "payment_date" \in result.df.columns
    /\ \E i, j \in 1..Len(result.df.rows) :
          /\ result.cleaned.rows[i]["payment_date"] = StrCell(DateTextUS(4))
          /\ result.df.rows[i]["payment_date"] = StrCell(DateText(4))
          /\ result.cleaned.rows[j]["payment_date"] = DateCell(5)
          /\ result.df.rows[j]["payment_date"] = StrCell(DateText(5))

\* The step just taken is the DELETE of a delete_all_records call.
Deleted == deleting.pc = "counted" /\ deleting'.pc = "idle"

\* C14: record lifecycle: over any sequence of store operations a stored row
\* is never modified, the only operation that removes rows is
\* delete_all_records, which removes all of them, and every other operation
\* leaves the rows the store holds as they are (new rows follow them).
C14_Lifecycle ==
    [][IF Deleted
       THEN store' = <<>>
       ELSE /\ Len(store') >= Len(store)
            /\ SubSeq(store', 1, Len(store)) = store]_vars

\* C14 witness: rows were inserted, all were deleted, and the store again
\* holds rows of two later insertions, the last one an ingestion.
C14_Witness ==
    /\ call.op = "process_and_save" /\ result.success
    /\ Len(store) >= 2
    /\ store[1].id > 1
    /\ store[Len(store)].upload_date > store[1].upload_date

\* The input header the call's mapping copies into the output column c.
HeaderOf(c) ==
    CHOOSE h \in call.df.columns \cap DOMAIN CARRIER_MAPPINGS[call.carrier_name] :
        CARRIER_MAPPINGS[call.carrier_name][h] = c

\* w is the text v without its leading and trailing whitespace: v is some
\* whitespace, then w, then some whitespace, and w neither starts nor ends
\* with whitespace.
Trimmed(v, w) ==
    /\ \E lo, hi \in 0..Len(v) :
          /\ lo <= hi
          /\ w = SubSeq(v, lo + 1, hi)
          /\ \A k \in 1..lo : IsSpace(v[k])
          /\ \A k \in (hi + 1)..Len(v) : IsSpace(v[k])
    /\ w # <<>>
    /\ ~IsSpace(w[1]) /\ ~IsSpace(w[Len(w)])

\* C15: cleaning strips the leading and trailing whitespace of every text cell
\* and then turns the empty text into null: a cell of whitespace only ends up
\* null, any other text cell is null or its trimmed text, and no text cell of
\* the normalized output starts or ends with whitespace or is empty.
C15_CleaningTrims ==
    Normalized
    => \A i \in 1..Len(result.df.rows) : \A c \in result.df.columns :
          LET raw == call.df.rows[i][HeaderOf(c)]
              cleaned == result.cleaned.rows[i][c]
              out == result.df.rows[i][c]
          IN  /\ raw.t = "str"
                 => IF \A k \in 1..Len(raw.s) : IsSpace(raw.s[k])
                    THEN IsNull(cleaned) /\ IsNull(out)
                    ELSE IsNull(cleaned)
                         \/ (cleaned.t = "str" /\ Trimmed(raw.s, cleaned.s))
              /\ raw.t # "str" => cleaned = raw
              /\ out.t = "str"
                 => /\ out.s # <<>>
                    /\ ~IsSpace(out.s[1]) /\ ~IsSpace(out.s[Len(out.s)])

\* C15 witness: one row's text of whitespace only became null, and another
\* row's text with whitespace on both sides is in the output without it.
C15_Witness ==
    /\ Normalized
    /\ "payee_name" \in result.df.columns
    /\ \E i, j \in 1..Len(result.df.rows) :
          /\ call.df.rows[i][HeaderOf("payee_name")] = StrCell(sBlank)
          /\ IsNull(result.df.rows[i]["payee_name"])
          /\ call.df.rows[j][HeaderOf("payee_name")] = StrCell(sYesPadded)
          /\ result.df.rows[j]["payee_name"] = StrCell(sYes)

\* C16: normalizing a table for a supported carrier never raises because of
\* what the cells hold: it returns a table in which a date cell or a numeric
\* cell that cannot be parsed is null, whatever headers are present.
C16_NormalizeNeverRaises ==
    (call.op = "_normalize_data" /\ result.done)
    => /\ ~result.raised
       /\ \A i \in 1..Len(result.df.rows) :
             /\ \A c \in date_columns \cap result.df.columns :
                   IsIsoDate(result.df.rows[i][c]) \/ IsNull(result.df.rows[i][c])
             /\ \A c \in numeric_columns \cap result.df.columns :
                   IsNumber(result.df.rows[i][c]) \/ IsNull(result.df.rows[i][c])

\* What the code does there: a date column whose texts carry two different
\* UTC offsets made _normalize_data raise.
C16_RaiseReached ==
    /\ call.op = "_normalize_data" /\ result.done /\ result.raised
    /\ \E h \in call.df.columns :
          /\ h \in DOMAIN CARRIER_MAPPINGS[call.carrier_name]
          /\ CARRIER_MAPPINGS[call.carrier_name][h] \in date_columns
          /\ MixedOffsets(Column(call.df, h))

\* A date column whose texts carry one UTC offset, beside a blank, was
\* converted to ISO dates.
C16_OneOffsetReached ==
    /\ Normalized
    /\ "effective_date" \in result.df.columns
    /\ Len(result.df.rows) = MaxRows
    /\ \A i \in 1..Len(result.df.rows) :
          /\ result.cleaned.rows[i]["effective_date"] = StrCell(DateTextOffset(6, 2))
          /\ result.df.rows[i]["effective_date"] = StrCell(DateText(6))

\* The payment dates of the aggregated table that are not null, as days.
PaymentDays ==
    IF "payment_date" \notin result.df.columns THEN {}
    ELSE {ParseDate(result.df.rows[i]["payment_date"].s) :
             i \in {j \in 1..Len(result.df.rows) :
                       ~IsNull(result.df.rows[j]["payment_date"])}}

\* C17: the aggregator's date_range is the earliest and the latest of the
\* non-null payment dates of the table (so start <= end), and it is null
\* exactly when the table has no payment_date column or no payment date.
C17_DateRangeIsMinMax ==
    Aggregated
    => LET range == result.stats.date_range
       IN  /\ range.none <=> PaymentDays = {}
           /\ ~range.none
              => /\ ParseDate(range.start) \in PaymentDays
                 /\ ParseDate(range.end) \in PaymentDays
                 /\ \A d \in PaymentDays :
                       ParseDate(range.start) <= d /\ d <= ParseDate(range.end)
                 /\ range.start = DateText(ParseDate(range.start))
                 /\ range.end = DateText(ParseDate(range.end))

\* C17 witness: the payment dates of the table come later date first, and
\* the range starts with the date of the last row and ends with the first's.
C17_Witness ==
    /\ Aggregated
    /\ "payment_date" \in result.df.columns
    /\ Len(result.df.rows) >= 2
    /\ result.df.rows[1]["payment_date"] = StrCell(DateText(5))
    /\ result.df.rows[2]["payment_date"] = StrCell(DateText(2))
    /\ result.stats.date_range.start = DateText(2)
    /\ result.stats.date_range.end = DateText(5)

\* A table with a payment_date column and rows, none with a date that
\* parses, has no date range.
C17_NoRangeReached ==
    /\ Aggregated
    /\ "payment_date" \in result.df.columns
    /\ Len(result.df.rows) = MaxRows
    /\ result.stats.date_range.none

\* The step just taken is an export_to_excel call.
Exported == call'.op = "export_to_excel" /\ deleting' = deleting

\* The positions of the stored rows an export with this carrier filter is to
\* write: all rows without a filter, the carrier's rows with one.
Wanted(carrier_name) ==
    {k \in 1..Len(store) :
        carrier_name \in AVAILABLE_CARRIERS => store[k].carrier_name = carrier_name}

\* C18: export_to_excel writes exactly the rows the store holds (with a
\* carrier name, exactly the stored rows of that carrier), each once and with
\* its stored field values, and does not change the store.
C18_ExportWritesStoredRows ==
    [][Exported
       => LET sheet == result'.sheet
              wanted == Wanted(call'.carrier_name)
          IN  /\ store' = store
              /\ Len(sheet.rows) = Cardinality(wanted)
              /\ \A k \in wanted :
                    \E i \in 1..Len(sheet.rows) :
                       /\ sheet.rows[i]["id"] = IntCell(store[k].id)
                       /\ sheet.rows[i]["carrier_name"] = StrCell(<<store[k].carrier_name>>)
                       /\ \A f \in DataColumns :
                             sheet.rows[i][f] =
                                IF f \in DOMAIN store[k].fields
                                THEN store[k].fields[f]
                                ELSE NullCell]_vars

\* C18 witness: the store holds rows of OSCAR and of another carrier, and an
\* export for OSCAR wrote OSCAR's rows alone.
C18_Witness ==
    /\ call.op = "export_to_excel"
    /\ call.carrier_name = "OSCAR"
    /\ \E k \in 1..Len(store) : store[k].carrier_name # "OSCAR"
    /\ Len(result.sheet.rows) = MaxRows
    /\ \A i \in 1..Len(result.sheet.rows) :
          result.sheet.rows[i]["carrier_name"] = StrCell(<<"OSCAR">>)
    /\ \E i \in 1..Len(result.sheet.rows) :
          ~IsNull(result.sheet.rows[i]["amount"])

\* C19: delete_all_records returns exactly the number of rows it removed and
\* leaves the commission table empty, in every store state, also when an
\* ingestion appended rows between its count query and its delete.
C19_DeleteReturnsRemoved ==
    [][Deleted
       => /\ result'.count = Len(store)
          /\ store' = <<>>]_vars

\* What the code does there: rows were appended after the count, the delete
\* removed them too and the call answered the earlier count.
C19_StaleCountReached ==
    /\ deleting.pc = "counted"
    /\ Len(store) > deleting.count
    /\ deleting.count > 0

\* The step just taken is a get_all_reports call with an integer limit.
Limited ==
    /\ call'.op = "get_all_reports"
    /\ deleting' = deleting
    /\ call'.limit.given

\* C20: get_all_reports(limit=n) returns at most n rows for every integer n,
\* 0 included, taken from the stored rows in descending upload_date order;
\* without a limit it returns all stored rows.
C20_LimitBoundsRows ==
    [][/\ Limited
          => /\ Len(result'.rows) <= call'.limit.n
             /\ \A i \in 1..Len(result'.rows) :
                   /\ \E k \in 1..Len(store) : result'.rows[i] = store[k]
                   /\ \A k \in 1..Len(store) :
                         store[k].upload_date > result'.rows[i].upload_date
                         => \E j \in 1..(i - 1) : result'.rows[j] = store[k]
       /\ (call'.op = "get_all_reports" /\ deleting' = deleting /\ ~call'.limit.given)
          => /\ Len(result'.rows) = Len(store)
             /\ \A k \in 1..Len(store) :
                   \E i \in 1..Len(result'.rows) : result'.rows[i] = store[k]]_vars

\* What the code does there: get_all_reports(limit=0) returned every row of
\* a store that holds rows.
C20_LimitZeroReached ==
    /\ call.op = "get_all_reports"
    /\ call.limit = LimitOf(0)
    /\ Len(store) > 0
    /\ Len(result.rows) = Len(store)

\* A positive limit below the number of stored rows cut the answer to the
\* rows uploaded last.
C20_LimitOneReached ==
    /\ call.op = "get_all_reports"
    /\ call.limit = LimitOf(1)
    /\ Len(store) > 1
    /\ Len(result.rows) = 1
    /\ \A k \in 1..Len(store) : store[k].upload_date <= result.rows[1].upload_date

\* What the process_and_save call last made met on the way, given the answers
\* of validate_file and process_file for it: nothing ("none"), a file
\* validate_file refuses, an exception of process_file, or an exception of
\* the insert.
FailedIn(valid, processed) ==
    IF ~valid.ok THEN "validation"
    ELSE IF processed.raised THEN "processing"
    ELSE IF call.fail_at # 0 THEN "insertion"
    ELSE "none"

\* C21: process_and_save never raises to its caller: whatever the file, the
\* carrier name and the rows the store held, the call returned a dictionary;
\* when validation, process_file (the normalization included) or the insert
\* failed, the dictionary has success False and a non-empty error text:
\* the message of validate_file, or the prefixed text of the exception.
C21_NeverRaisesToCaller ==
    call.op = "process_and_save" =>
        LET valid == ValidateFile(call.file)
            processed == ProcessFile(call.file, call.carrier_name)
            failed == FailedIn(valid, processed)
        IN  /\ result.done /\ ~result.raised
            /\ (failed = "none") <=> result.success
            /\ failed # "none" => result.error # ""
            /\ failed = "validation" => result.error = valid.message
            /\ failed = "processing" => result.error = ErrPrefix \o processed.error
            /\ failed = "insertion" => result.error = ErrPrefix \o ErrDatabase

\* C21 witness: dates spelled with two UTC offsets made the normalization
\* raise AttributeError while the store held rows; the call returned success
\* False with the prefixed text.
C21_Witness ==
    /\ call.op = "process_and_save"
    /\ ValidateFile(call.file).ok
    /\ CarrierSupported(call.carrier_name)
    /\ NormalizeRaises(call.file.df, CARRIER_MAPPINGS[call.carrier_name])
    /\ result.done /\ ~result.raised /\ ~result.success
    /\ result.error = ErrPrefix \o ErrAccessor
    /\ Len(store) > 0

\* C21: a failure of the insert is reached too: the database refused a row
\* while the store held rows, and the call returned success False.
C21_EveryFailureReached ==
    /\ call.op = "process_and_save"
    /\ result.done /\ ~result.raised /\ ~result.success
    /\ result.error = ErrPrefix \o ErrDatabase
    /\ call.fail_at # 0
    /\ Len(store) > 0

\* C22: whenever process_and_save returns success True, records_inserted is
\* the number of rows the call appended to the store, is stats.total_records,
\* and is the number of data rows of the input file, also for a file with
\* none of the chosen carrier's mapped headers.
C22_InsertedIsFileRowCount ==
    [][(Ingested /\ result'.success)
        => /\ result'.records_inserted = Len(store') - Len(store)
           /\ result'.records_inserted = result'.stats.total_records
           /\ result'.records_inserted = Len(call'.file.df.rows)]_vars

\* C22: the part that holds: on success records_inserted is the number of
\* rows appended and is stats.total_records, and it is the file's number of
\* data rows when the file has at least one of the carrier's mapped headers.
C22_InsertedIsRowsAppended ==
    [][(Ingested /\ result'.success)
        => /\ result'.records_inserted = Len(store') - Len(store)
           /\ result'.records_inserted = result'.stats.total_records
           /\ MappedHeaders(call'.file.df, CARRIER_MAPPINGS[call'.carrier_name]) # {}
                => result'.records_inserted = Len(call'.file.df.rows)]_vars

\* C22: the case that fails is reached: a valid file with a data row and none
\* of the carrier's mapped headers was answered success True with
\* records_inserted 0, and the store got no row.
C22_RowsLostReached ==
    /\ call.op = "process_and_save"
    /\ Len(call.file.df.rows) > 0
    /\ CarrierSupported(call.carrier_name)
    /\ MappedHeaders(call.file.df, CARRIER_MAPPINGS[call.carrier_name]) = {}
    /\ result.done /\ result.success
    /\ result.records_inserted = 0
    /\ result.stats.total_records = 0
    /\ store = <<>>

\* C23: for each of the four supported carriers, detect_carrier on a table
\* whose header set is exactly the keys of that carrier's mapping answers
\* that carrier, although MOLINA, AMBETTER and AETNA share headers and a tie
\* goes to the first mapping in table order.
C23_ExactVocabularyDetected ==
    \A c \in AVAILABLE_CARRIERS :
        (Detected /\ call.file.df.columns = Keys(c)) => result.carrier = c

\* C23 witness: a table with exactly AETNA's headers, of which MOLINA and
\* AMBETTER, earlier in table order, know at least half of their own keys,
\* was detected as AETNA.
C23_Witness ==
    /\ Detected
    /\ call.file.df.columns = Keys("AETNA")
    /\ 2 * Overlap("MOLINA") >= MappingSize("MOLINA")
    /\ 2 * Overlap("AMBETTER") >= MappingSize("AMBETTER")
    /\ Overlap("MOLINA") < MappingSize("AETNA")
    /\ result.carrier = "AETNA"

\* C23: a table with exactly OSCAR's headers, of which every other mapping
\* knows fewer than OSCAR's own, was detected as OSCAR.
C23_OscarReached ==
    /\ Detected
    /\ call.file.df.columns = Keys("OSCAR")
    /\ \A c \in AVAILABLE_CARRIERS \ {"OSCAR"} : Overlap(c) < MappingSize("OSCAR")
    /\ result.carrier = "OSCAR"

====
